---- MODULE Spec2Model ----
(***************************************************************************)
(* Model of transform.go: the bulk uploader's main goroutine, its worker   *)
(* pool draining the buffered jobs channel, the per-item processFile /     *)
(* postItem outcome classification, the shared counters and failure list,  *)
(* and the retry-file / failure-file text format (readFileList and         *)
(* saveFilesToFile).                                                       *)
(*                                                                         *)
(* Strings are sequences of characters.  The characters are "a", "b",      *)
(* the blank " ", the newline "\n" and the token ".json", which stands     *)
(* for the five characters of the suffix that filepath.Glob matches.       *)
(***************************************************************************)
EXTENDS Integers, Sequences, FiniteSets, TLC

\* ---------------------------------------------------------------------------
\* Bounds of the model
\* ---------------------------------------------------------------------------
MaxFiles == 2
MaxWorkers == 2
MaxConnsFlag == 1
\* Redirects the server answers one client.Do call with
MaxRedirects == 1

\* ---------------------------------------------------------------------------
\* Text helpers
\* ---------------------------------------------------------------------------
NL == "\n"
SP == " "
JSON == ".json"

\* unicode.IsSpace restricted to the model's characters
IsSpace(c) == c \in {SP, NL}

RECURSIVE TrimLeft(_)
TrimLeft(s) ==
  IF s = <<>> THEN <<>>
  ELSE IF IsSpace(Head(s)) THEN TrimLeft(Tail(s)) ELSE s

RECURSIVE TrimRight(_)
TrimRight(s) ==
  IF s = <<>> THEN <<>>
  ELSE IF IsSpace(s[Len(s)]) THEN TrimRight(SubSeq(s, 1, Len(s) - 1)) ELSE s

\* strings.TrimSpace
TrimSpace(s) == TrimRight(TrimLeft(s))

\* bufio.Scanner with ScanLines: the tokens between newlines; a last line
\* without its newline is a token when it is not empty.
RECURSIVE ScanLines(_, _)
ScanLines(text, cur) ==
  IF text = <<>> THEN (IF cur = <<>> THEN <<>> ELSE <<cur>>)
  ELSE IF Head(text) = NL THEN <<cur>> \o ScanLines(Tail(text), <<>>)
  ELSE ScanLines(Tail(text), Append(cur, Head(text)))

RECURSIVE KeepPaths(_)
KeepPaths(lines) ==
  IF lines = <<>> THEN <<>>
  ELSE LET path == TrimSpace(Head(lines))
       IN  IF path # <<>> THEN <<path>> \o KeepPaths(Tail(lines))
           ELSE KeepPaths(Tail(lines))

\* readFileList: one path per line, trimmed, blank lines skipped
readFileList(text) == KeepPaths(ScanLines(text, <<>>))

\* The bytes saveFilesToFile hands to its writer: every path followed by "\n"
RECURSIVE FileText(_)
FileText(fs) ==
  IF fs = <<>> THEN <<>>
  ELSE Head(fs) \o <<NL>> \o FileText(Tail(fs))

\* ---------------------------------------------------------------------------
\* The environment the process is started in
\* ---------------------------------------------------------------------------
\* Names a directory may hold that match *.json, in the byte order in which
\* filepath.Glob returns them ("\n" < " " < "." < "a").
DirList ==
  << <<SP, "a", JSON>>, <<"a", NL, "b", JSON>>, <<"a", JSON>> >>

RECURSIVE GlobFrom(_, _)
GlobFrom(present, n) ==
  IF n > Len(DirList) THEN <<>>
  ELSE (IF n \in present THEN <<DirList[n]>> ELSE <<>>) \o GlobFrom(present, n + 1)

\* filepath.Glob(filepath.Join(dir, "*.json")): the matching names, sorted
Glob(present) == GlobFrom(present, 1)

DirListings ==
  { p \in SUBSET (1..Len(DirList)) : Cardinality(p) <= MaxFiles }

\* Lines a retry file may hold
RetryLines == { <<"a">>, <<SP, "a", SP>>, <<>> }

RECURSIVE LinesUpTo(_)
LinesUpTo(n) ==
  IF n = 0 THEN { <<>> }
  ELSE LET shorter == LinesUpTo(n - 1)
       IN  shorter \cup { Append(ls, l) : ls \in shorter, l \in RetryLines }

RetryTexts == { FileText(ls) : ls \in LinesUpTo(MaxFiles) }

Backoffs == {0, 500}
StatusCodes == {200, 299, 300, 404}

Flags ==
  [ keySet : BOOLEAN,
    retry : BOOLEAN,
    apiValid : BOOLEAN,
    workers : (-1)..MaxWorkers,
    backoff : Backoffs,
    maxConns : 0..MaxConnsFlag,
    saveFailures : BOOLEAN ]

\* ---------------------------------------------------------------------------
\* State
\* ---------------------------------------------------------------------------
VARIABLES
  flag,       \* the command-line flags and whether the credential variable is set
  pc,         \* position of main
  inputRead,  \* the directory was scanned or the retry file was read
  files,      \* main's files slice
  jobs,       \* content of the buffered jobs channel
  closed,     \* close(jobs) was called
  wg,         \* the WaitGroup counter
  spawned,    \* the spawn loop's w
  sent,       \* number of identifiers pushed by the enqueue loop
  ok,         \* success counter
  fail,       \* failure counter
  failures,   \* the failures slice
  mutex,      \* holder of failuresMutex, 0 when free
  wpc,        \* position of every worker goroutine
  cur,        \* the f of every worker's current iteration
  idle,       \* idle connections kept by the transport
  outcome,    \* per queue entry, whether its processFile call has ended and how
  attempts,   \* per queue entry, number of processFile calls
  reqs,       \* per queue entry, number of HTTP requests put on a connection
  out,        \* what the process has logged and printed
  outFile,    \* the file at the -save-failures path
  article,    \* the Article handed to buildHTML
  html        \* what buildHTML returned for it, empty before the call

vars ==
  << flag, pc, inputRead, files, jobs, closed, wg, spawned, sent, ok, fail,
     failures, mutex, wpc, cur, idle, outcome, attempts, reqs, out, outFile,
     article, html >>

Workers == 1..MaxWorkers

NoJob == [f |-> <<>>, i |-> 0, err |-> FALSE, old |-> <<>>]
NoSummary == [printed |-> FALSE, ok |-> 0, fail |-> 0]

\* Connections in use by a request
Active == Cardinality({ w \in Workers : wpc[w] = "inflight" })

\* Connections open to the remote host
OpenConns == Active + idle

\* Variant of IsSuccessStatus: the upper limit is included
IsSuccessStatusUpTo300(s) == s >= 200 /\ s <= 300

\* resp.StatusCode >= 200 && resp.StatusCode < 300
IsSuccessStatus(s) == s >= 200 /\ s < 300

\* The file opened, the record decoded and the endpoint answered 2xx
Met(r) == r.k = "http" /\ r.s \in 200..299

\* ---------------------------------------------------------------------------
\* The renderer.  Its strings are sequences of tokens: single characters,
\* the word "script", and the constant pieces of buildHTML's format strings.
\* ---------------------------------------------------------------------------
LT == "<"
GT == ">"
AMP == "&"

ScriptOpen == <<LT, "script">>
ScriptClose == <<LT, "/", "script", GT>>
EscScriptOpen == <<"&lt;", "script">>
EscScriptClose == <<"&lt;", "/", "script", "&gt;">>

\* html.EscapeString, on the model's characters
RECURSIVE EscapeString(_)
EscapeString(s) ==
  IF s = <<>> THEN <<>>
  ELSE LET c == Head(s)
           e == CASE c = LT -> "&lt;"
                  [] c = GT -> "&gt;"
                  [] c = AMP -> "&amp;"
                  [] OTHER -> c
       IN  <<e>> \o EscapeString(Tail(s))

HasPrefix(s, p) == Len(p) <= Len(s) /\ SubSeq(s, 1, Len(p)) = p

Drop(s, n) == SubSeq(s, n + 1, Len(s))

\* Variant of cleanHTML: only the closing tag is replaced
RECURSIVE cleanHTMLClosingOnly(_)
cleanHTMLClosingOnly(s) ==
  IF s = <<>> THEN <<>>
  ELSE IF HasPrefix(s, ScriptClose)
    THEN EscScriptClose \o cleanHTMLClosingOnly(Drop(s, Len(ScriptClose)))
  ELSE <<Head(s)>> \o cleanHTMLClosingOnly(Tail(s))

\* cleanHTML: the strings.Replacer scans from the left and replaces, without
\* overlap, "<script" by "&lt;script" and "</script>" by "&lt;/script&gt;"
RECURSIVE cleanHTML(_)
cleanHTML(s) ==
  IF s = <<>> THEN <<>>
  ELSE IF HasPrefix(s, ScriptOpen)
    THEN EscScriptOpen \o cleanHTML(Drop(s, Len(ScriptOpen)))
  ELSE IF HasPrefix(s, ScriptClose)
    THEN EscScriptClose \o cleanHTML(Drop(s, Len(ScriptClose)))
  ELSE <<Head(s)>> \o cleanHTML(Tail(s))

DivOpen == "<div>\n"
DivClose == "\n</div>\n"

\* buildHTML
buildHTML(a) ==
  <<"<h1>">> \o EscapeString(a.Title) \o <<"</h1>\n">>
    \o (IF a.Excerpt # <<>>
          THEN <<"<p>">> \o EscapeString(a.Excerpt) \o <<"</p>\n">>
          ELSE <<>>)
    \o <<DivOpen>> \o cleanHTML(a.Content) \o <<DivClose>>
    \o <<"<h3>Metadata</h3>\n">>
    \o <<"<p>Source Url: <a href=\"">> \o a.Link \o <<"\">">> \o a.Link \o <<"</a></p>">>
    \o <<"<p>Published Date: ">> \o a.PublishDate \o <<"</p>">>
    \o <<"<p>Updated Date: ">> \o a.UpdatedDate \o <<"</p>">>

\* The articles the renderer is applied to
Payload == <<LT, "script", GT, "alert(1)", LT, "/", "script", GT>>
Bold == <<LT, "b", GT, "bold", LT, "/", "b", GT>>

FieldTexts == { <<"x">>, <<LT, "script", GT>> }

Contents ==
  { pre \o mid \o post :
      pre \in { <<>>, <<LT>>, <<LT, "/">> },
      mid \in { <<>>, Payload, Bold, Payload \o Bold, Bold \o Payload },
      post \in { <<>>, <<"script">>, <<LT>> } }

Articles ==
  [ Title : FieldTexts,
    Content : Contents,
    Excerpt : FieldTexts \cup { <<>> },
    Link : FieldTexts,
    PublishDate : FieldTexts,
    UpdatedDate : FieldTexts ]

NoArticle ==
  [ Title |-> <<>>, Content |-> <<>>, Excerpt |-> <<>>, Link |-> <<>>,
    PublishDate |-> <<>>, UpdatedDate |-> <<>> ]

Init ==
  /\ article = NoArticle
  /\ html = <<>>
  /\ flag \in Flags
  /\ pc = "start"
  /\ inputRead = FALSE
  /\ files = <<>>
  /\ jobs = <<>>
  /\ closed = FALSE
  /\ wg = 0
  /\ spawned = 0
  /\ sent = 0
  /\ ok = 0
  /\ fail = 0
  /\ failures = <<>>
  /\ mutex = 0
  /\ wpc = [w \in Workers |-> "unborn"]
  /\ cur = [w \in Workers |-> NoJob]
  /\ idle = 0
  /\ outcome = <<>>
  /\ attempts = <<>>
  /\ reqs = <<>>
  /\ out = [fatal |-> FALSE, notice |-> FALSE, failLines |-> 0, saveLog |-> "none",
            summary |-> NoSummary]
  /\ outFile = [state |-> "untouched", text |-> <<>>]

\* ---------------------------------------------------------------------------
\* main
\* ---------------------------------------------------------------------------
\* Variant of NewTransformer: the missing credential is not checked
NewTransformerNoKeyCheck ==
  /\ pc = "start"
  /\ pc' = "collect"
  /\ UNCHANGED << article, html, flag, inputRead, files, jobs, closed, wg, spawned, sent, ok, fail,
                  failures, mutex, wpc, cur, idle, outcome, attempts, reqs, out,
                  outFile >>

\* NewTransformer and main's check of its error
NewTransformer ==
  /\ pc = "start"
  /\ IF flag.keySet
       THEN pc' = "collect" /\ out' = out
       ELSE pc' = "fatal" /\ out' = [out EXCEPT !.fatal = TRUE]
  /\ UNCHANGED << article, html, flag, inputRead, files, jobs, closed, wg, spawned, sent, ok,
                  fail, failures, mutex, wpc, cur, idle, outcome, attempts, reqs,
                  outFile >>

\* What main may obtain as its file list: readFileList on the retry file
\* (which may fail to open) or filepath.Glob on the directory (whose pattern
\* may be malformed)
Collected ==
  IF flag.retry
    THEN { [err |-> FALSE, files |-> readFileList(text)] : text \in RetryTexts }
           \cup { [err |-> TRUE, files |-> <<>>] }
    ELSE { [err |-> FALSE, files |-> Glob(present)] : present \in DirListings }
           \cup { [err |-> TRUE, files |-> <<>>] }

\* Variant of Collect: no len(files) == 0 check
CollectNoEmptyCheck ==
  /\ pc = "collect"
  /\ inputRead' = TRUE
  /\ \E c \in Collected :
         IF c.err
           THEN /\ pc' = "fatal"
                /\ out' = [out EXCEPT !.fatal = TRUE]
                /\ UNCHANGED << files, outcome, attempts, reqs >>
           ELSE /\ files' = c.files
                /\ pc' = IF 0 < flag.workers THEN "spawn" ELSE "enqueue"
                /\ out' = out
                /\ outcome' = [i \in 1..Len(c.files) |-> "none"]
                /\ attempts' = [i \in 1..Len(c.files) |-> 0]
                /\ reqs' = [i \in 1..Len(c.files) |-> 0]
  /\ UNCHANGED << article, html, flag, jobs, closed, wg, spawned, sent, ok, fail, failures, mutex,
                  wpc, cur, idle, outFile >>

\* Reading the retry file or globbing the directory, the empty check and the
\* creation of the channel, counters and failure list
Collect ==
  /\ pc = "collect"
  /\ inputRead' = TRUE
  /\ \E c \in Collected :
         IF c.err
           THEN /\ pc' = "fatal"
                /\ out' = [out EXCEPT !.fatal = TRUE]
                /\ UNCHANGED << files, outcome, attempts, reqs >>
           ELSE /\ files' = c.files
                /\ IF Len(c.files) = 0
                     THEN /\ pc' = "exited"
                          /\ out' = [out EXCEPT !.notice = TRUE]
                          /\ UNCHANGED << outcome, attempts, reqs >>
                     ELSE /\ pc' = IF 0 < flag.workers THEN "spawn" ELSE "enqueue"
                          /\ out' = out
                          /\ outcome' = [i \in 1..Len(c.files) |-> "none"]
                          /\ attempts' = [i \in 1..Len(c.files) |-> 0]
                          /\ reqs' = [i \in 1..Len(c.files) |-> 0]
  /\ UNCHANGED << article, html, flag, jobs, closed, wg, spawned, sent, ok, fail, failures,
                  mutex, wpc, cur, idle, outFile >>

\* Variant of Spawn: the go statement without wg.Add(1)
SpawnWithoutAdd ==
  /\ pc = "spawn"
  /\ wpc' = [wpc EXCEPT ![spawned + 1] = "recv"]
  /\ spawned' = spawned + 1
  /\ pc' = IF spawned + 1 < flag.workers THEN "spawn" ELSE "enqueue"
  /\ UNCHANGED << article, html, flag, inputRead, files, jobs, closed, wg, sent, ok,
                  fail, failures, mutex, cur, idle, outcome, attempts, reqs, out,
                  outFile >>

\* One iteration of the spawn loop: wg.Add(1) and the go statement
Spawn ==
  /\ pc = "spawn"
  /\ wg' = wg + 1
  /\ wpc' = [wpc EXCEPT ![spawned + 1] = "recv"]
  /\ spawned' = spawned + 1
  /\ pc' = IF spawned + 1 < flag.workers THEN "spawn" ELSE "enqueue"
  /\ UNCHANGED << article, html, flag, inputRead, files, jobs, closed, sent, ok, fail,
                  failures, mutex, cur, idle, outcome, attempts, reqs, out, outFile >>

\* Variant of JobsCap: the channel buffers one identifier per worker
JobsCapPerWorker == flag.workers

\* cap(jobs), of make(chan string, len(files))
JobsCap == Len(files)

\* One iteration of the enqueue loop: jobs <- f, which blocks on a full buffer
Enqueue ==
  /\ pc = "enqueue"
  /\ Len(jobs) < JobsCap
  /\ jobs' = Append(jobs, files[sent + 1])
  /\ sent' = sent + 1
  /\ pc' = IF sent + 1 < Len(files) THEN "enqueue" ELSE "close"
  /\ UNCHANGED << article, html, flag, inputRead, files, closed, wg, spawned, ok, fail,
                  failures, mutex, wpc, cur, idle, outcome, attempts, reqs, out,
                  outFile >>

\* Variant of Close: main goes on to wg.Wait() without closing the channel
CloseForgotten ==
  /\ pc = "close"
  /\ closed' = closed
  /\ pc' = "wait"
  /\ UNCHANGED << article, html, flag, inputRead, files, jobs, wg, spawned, sent, ok, fail,
                  failures, mutex, wpc, cur, idle, outcome, attempts, reqs, out,
                  outFile >>

\* close(jobs)
Close ==
  /\ pc = "close"
  /\ closed' = TRUE
  /\ pc' = "wait"
  /\ UNCHANGED << article, html, flag, inputRead, files, jobs, wg, spawned, sent, ok, fail,
                  failures, mutex, wpc, cur, idle, outcome, attempts, reqs, out,
                  outFile >>

\* Variant of Wait: main goes on without waiting for the workers
WaitWithoutWaiting ==
  /\ pc = "wait"
  /\ pc' = "report"
  /\ UNCHANGED << article, html, flag, inputRead, files, jobs, closed, wg, spawned, sent, ok, fail,
                  failures, mutex, wpc, cur, idle, outcome, attempts, reqs, out,
                  outFile >>

\* Variant of Wait: main waits until the counters account for every item
WaitForAllItems ==
  /\ pc = "wait"
  /\ ok + fail = Len(files)
  /\ pc' = "report"
  /\ UNCHANGED << article, html, flag, inputRead, files, jobs, closed, wg, spawned, sent, ok,
                  fail, failures, mutex, wpc, cur, idle, outcome, attempts, reqs, out,
                  outFile >>

\* wg.Wait() returns
Wait ==
  /\ pc = "wait"
  /\ wg = 0
  /\ pc' = "report"
  /\ UNCHANGED << article, html, flag, inputRead, files, jobs, closed, wg, spawned, sent, ok,
                  fail, failures, mutex, wpc, cur, idle, outcome, attempts, reqs, out,
                  outFile >>

\* saveFilesToFile and its result: "ok", "create" (os.Create failed) or
\* "write" (a write or the flush failed after n bytes reached the file)
saveFilesToFile(fs, result, n) ==
  CASE result = "ok" -> [state |-> "written", text |-> FileText(fs)]
    [] result = "write" -> [state |-> "partial", text |-> SubSeq(FileText(fs), 1, n)]
    [] OTHER -> outFile

\* Variant of Save: an error of saveFilesToFile ends the process (log.Fatal)
SaveFatalOnError ==
  /\ pc = "report"
  /\ IF flag.saveFailures /\ Len(failures) > 0
       THEN \/ /\ outFile' = saveFilesToFile(failures, "ok", 0)
               /\ out' = [out EXCEPT !.saveLog = "saved"]
               /\ pc' = "summary"
            \/ /\ outFile' = saveFilesToFile(failures, "create", 0)
               /\ out' = [out EXCEPT !.saveLog = "error", !.fatal = TRUE]
               /\ pc' = "fatal"
            \/ /\ \E n \in 0..(Len(FileText(failures)) - 1) :
                    outFile' = saveFilesToFile(failures, "write", n)
               /\ out' = [out EXCEPT !.saveLog = "error", !.fatal = TRUE]
               /\ pc' = "fatal"
       ELSE pc' = "summary" /\ UNCHANGED << out, outFile >>
  /\ UNCHANGED << article, html, flag, inputRead, files, jobs, closed, wg, spawned, sent, ok, fail,
                  failures, mutex, wpc, cur, idle, outcome, attempts, reqs >>

\* The save block of main
Save ==
  /\ pc = "report"
  /\ pc' = "summary"
  /\ IF flag.saveFailures /\ Len(failures) > 0
       THEN \/ /\ outFile' = saveFilesToFile(failures, "ok", 0)
               /\ out' = [out EXCEPT !.saveLog = "saved"]
            \/ /\ outFile' = saveFilesToFile(failures, "create", 0)
               /\ out' = [out EXCEPT !.saveLog = "error"]
            \/ /\ \E n \in 0..(Len(FileText(failures)) - 1) :
                    outFile' = saveFilesToFile(failures, "write", n)
               /\ out' = [out EXCEPT !.saveLog = "error"]
       ELSE UNCHANGED << out, outFile >>
  /\ UNCHANGED << article, html, flag, inputRead, files, jobs, closed, wg, spawned, sent, ok,
                  fail, failures, mutex, wpc, cur, idle, outcome, attempts, reqs >>

\* fmt.Printf("Done. Success: %d  Failure: %d\n", ok, fail)
Summary ==
  /\ pc = "summary"
  /\ out' = [out EXCEPT !.summary = [printed |-> TRUE, ok |-> ok, fail |-> fail]]
  /\ pc' = "done"
  /\ UNCHANGED << article, html, flag, inputRead, files, jobs, closed, wg, spawned, sent, ok,
                  fail, failures, mutex, wpc, cur, idle, outcome, attempts, reqs,
                  outFile >>

\* ---------------------------------------------------------------------------
\* The worker goroutines
\* ---------------------------------------------------------------------------
\* Variant of Recv: the received identifier stays in the channel
RecvWithoutRemoving(w) ==
  /\ wpc[w] = "recv"
  /\ jobs # <<>>
  /\ cur' = [cur EXCEPT ![w] = [f |-> Head(jobs), i |-> sent - Len(jobs) + 1,
                                err |-> FALSE, old |-> <<>>]]
  /\ jobs' = jobs
  /\ wpc' = [wpc EXCEPT ![w] = IF flag.backoff > 0 THEN "sleep" ELSE "process"]
  /\ UNCHANGED << article, html, flag, pc, inputRead, files, closed, wg, spawned, sent, ok, fail,
                  failures, mutex, idle, outcome, attempts, reqs, out, outFile >>

\* Variant of Recv: the receive takes the identifier buffered last
RecvLast(w) ==
  /\ wpc[w] = "recv"
  /\ jobs # <<>>
  /\ cur' = [cur EXCEPT ![w] = [f |-> jobs[Len(jobs)], i |-> sent - Len(jobs) + 1,
                                err |-> FALSE, old |-> <<>>]]
  /\ jobs' = SubSeq(jobs, 1, Len(jobs) - 1)
  /\ wpc' = [wpc EXCEPT ![w] = IF flag.backoff > 0 THEN "sleep" ELSE "process"]
  /\ UNCHANGED << article, html, flag, pc, inputRead, files, closed, wg, spawned, sent, ok,
                  fail, failures, mutex, idle, outcome, attempts, reqs, out, outFile >>

\* Variant of Recv: the loop body goes to processFile without the sleep
RecvSkipSleep(w) ==
  /\ wpc[w] = "recv"
  /\ jobs # <<>>
  /\ cur' = [cur EXCEPT ![w] = [f |-> Head(jobs), i |-> sent - Len(jobs) + 1,
                                err |-> FALSE, old |-> <<>>]]
  /\ jobs' = Tail(jobs)
  /\ wpc' = [wpc EXCEPT ![w] = "process"]
  /\ UNCHANGED << article, html, flag, pc, inputRead, files, closed, wg, spawned, sent, ok,
                  fail, failures, mutex, idle, outcome, attempts, reqs, out, outFile >>

\* for f := range jobs, an identifier is buffered: receive it
Recv(w) ==
  /\ wpc[w] = "recv"
  /\ jobs # <<>>
  /\ cur' = [cur EXCEPT ![w] = [f |-> Head(jobs), i |-> sent - Len(jobs) + 1,
                                err |-> FALSE, old |-> <<>>]]
  /\ jobs' = Tail(jobs)
  /\ wpc' = [wpc EXCEPT ![w] = IF flag.backoff > 0 THEN "sleep" ELSE "process"]
  /\ UNCHANGED << article, html, flag, pc, inputRead, files, closed, wg, spawned, sent, ok,
                  fail, failures, mutex, idle, outcome, attempts, reqs, out, outFile >>

\* for f := range jobs, the channel is closed and empty: the loop ends and
\* the deferred wg.Done() runs
Exit(w) ==
  /\ wpc[w] = "recv"
  /\ jobs = <<>>
  /\ closed
  /\ wpc' = [wpc EXCEPT ![w] = "exited"]
  /\ wg' = wg - 1
  /\ UNCHANGED << article, html, flag, pc, inputRead, files, jobs, closed, spawned, sent, ok,
                  fail, failures, mutex, cur, idle, outcome, attempts, reqs, out,
                  outFile >>

\* time.Sleep(backoff ms)
Sleep(w) ==
  /\ wpc[w] = "sleep"
  /\ wpc' = [wpc EXCEPT ![w] = "process"]
  /\ UNCHANGED << article, html, flag, pc, inputRead, files, jobs, closed, wg, spawned, sent,
                  ok, fail, failures, mutex, cur, idle, outcome, attempts, reqs, out,
                  outFile >>

\* The processFile call of worker w ends: r is what happened, e whether the
\* returned error is non-nil
EndCall(w, r, e) ==
  /\ outcome' = [outcome EXCEPT ![cur[w].i] = IF Met(r) THEN "met" ELSE "unmet"]
  /\ cur' = [cur EXCEPT ![w].err = e]
  /\ wpc' = [wpc EXCEPT ![w] = "count"]

\* processFile up to client.Do: os.Open fails, Decode fails, or the article
\* is rendered and http.NewRequestWithContext builds the request, which
\* fails when the -api URL does not parse
Process(w) ==
  /\ wpc[w] = "process"
  /\ attempts' = [attempts EXCEPT ![cur[w].i] = @ + 1]
  /\ \/ EndCall(w, [k |-> "open", s |-> 0], TRUE)
     \/ EndCall(w, [k |-> "decode", s |-> 0], TRUE)
     \/ /\ ~flag.apiValid
        /\ EndCall(w, [k |-> "request", s |-> 0], TRUE)
     \/ /\ flag.apiValid
        /\ wpc' = [wpc EXCEPT ![w] = "dial"]
        /\ UNCHANGED << cur, outcome >>
  /\ UNCHANGED << article, html, flag, pc, inputRead, files, jobs, closed, wg, spawned, sent,
                  ok, fail, failures, mutex, idle, reqs, out, outFile >>

\* Variant of MayDial: the transport is built without MaxConnsPerHost
MayDialUnlimited == TRUE

\* The transport may open one more connection to the host (MaxConnsPerHost;
\* zero means no limit)
MayDial == flag.maxConns <= 0 \/ OpenConns < flag.maxConns

\* client.Do obtains a connection, an idle one when there is one and else a
\* new one, and puts the request on it
Dial(w) ==
  /\ wpc[w] = "dial"
  /\ IF idle > 0 THEN idle' = idle - 1 ELSE MayDial /\ idle' = idle
  /\ reqs' = [reqs EXCEPT ![cur[w].i] = @ + 1]
  /\ wpc' = [wpc EXCEPT ![w] = "inflight"]
  /\ UNCHANGED << article, html, flag, pc, inputRead, files, jobs, closed, wg, spawned, sent,
                  ok, fail, failures, mutex, cur, outcome, attempts, out, outFile >>

\* client.Do returns an error before the request is on a connection: the
\* dial failed, or the client's timeout ran out while waiting for one
DialFail(w) ==
  /\ wpc[w] = "dial"
  /\ EndCall(w, [k |-> "net", s |-> 0], TRUE)
  /\ UNCHANGED << article, html, flag, pc, inputRead, files, jobs, closed, wg, spawned, sent,
                  ok, fail, failures, mutex, idle, attempts, reqs, out, outFile >>

\* postItem's classification of a response
postItem(status) == ~IsSuccessStatus(status)

\* client.Do returns: an error (the connection is gone), or a response, whose
\* connection goes back to the transport's idle pool
Respond(w) ==
  /\ wpc[w] = "inflight"
  /\ \/ /\ EndCall(w, [k |-> "net", s |-> 0], TRUE)
        /\ idle' = idle
     \/ \E status \in StatusCodes :
          /\ EndCall(w, [k |-> "http", s |-> status], postItem(status))
          /\ idle' = idle + 1
  /\ UNCHANGED << article, html, flag, pc, inputRead, files, jobs, closed, wg, spawned, sent,
                  ok, fail, failures, mutex, attempts, reqs, out, outFile >>

\* client.Do gets a redirect response (301, 302, 303, 307 or 308 with a
\* Location): the client has no CheckRedirect, so it follows it with one more
\* request inside the same call; the connection goes back to the idle pool
Follow(w) ==
  /\ wpc[w] = "inflight"
  /\ reqs[cur[w].i] < 1 + MaxRedirects
  /\ idle' = idle + 1
  /\ wpc' = [wpc EXCEPT ![w] = "dial"]
  /\ UNCHANGED << article, html, flag, pc, inputRead, files, jobs, closed, wg, spawned, sent,
                  ok, fail, failures, mutex, cur, outcome, attempts, reqs, out, outFile >>

\* The transport closes an idle connection (IdleConnTimeout, or the peer did)
IdleClose ==
  /\ idle > 0
  /\ idle' = idle - 1
  /\ UNCHANGED << article, html, flag, pc, inputRead, files, jobs, closed, wg, spawned, sent,
                  ok, fail, failures, mutex, wpc, cur, outcome, attempts, reqs, out,
                  outFile >>

\* Variant of Count: a worker returns from its goroutine on the first error
CountExitOnError(w) ==
  /\ wpc[w] = "count"
  /\ IF cur[w].err
       THEN /\ fail' = fail + 1
            /\ ok' = ok
            /\ out' = [out EXCEPT !.failLines = @ + 1]
            /\ wpc' = [wpc EXCEPT ![w] = "exited"]
            /\ wg' = wg - 1
            /\ cur' = [cur EXCEPT ![w] = NoJob]
       ELSE /\ ok' = ok + 1
            /\ fail' = fail
            /\ out' = out
            /\ wpc' = [wpc EXCEPT ![w] = "recv"]
            /\ wg' = wg
            /\ cur' = [cur EXCEPT ![w] = NoJob]
  /\ UNCHANGED << article, html, flag, pc, inputRead, files, jobs, closed, spawned, sent, failures,
                  mutex, idle, outcome, attempts, reqs, outFile >>

\* Variant of Count: after an error the worker calls processFile again
CountRetryOnError(w) ==
  /\ wpc[w] = "count"
  /\ IF cur[w].err
       THEN /\ UNCHANGED << ok, fail, out >>
            /\ wpc' = [wpc EXCEPT ![w] = "process"]
            /\ cur' = [cur EXCEPT ![w].err = FALSE]
       ELSE /\ ok' = ok + 1
            /\ fail' = fail
            /\ out' = out
            /\ wpc' = [wpc EXCEPT ![w] = "recv"]
            /\ cur' = [cur EXCEPT ![w] = NoJob]
  /\ UNCHANGED << article, html, flag, pc, inputRead, files, jobs, closed, wg, spawned, sent,
                  failures, mutex, idle, outcome, attempts, reqs, outFile >>

\* atomic.AddUint64 on fail or ok, by processFile's error, and the FAIL line
\* logged for an error
Count(w) ==
  /\ wpc[w] = "count"
  /\ IF cur[w].err
       THEN /\ fail' = fail + 1
            /\ ok' = ok
            /\ out' = [out EXCEPT !.failLines = @ + 1]
            /\ IF flag.saveFailures
                 THEN wpc' = [wpc EXCEPT ![w] = "lock"] /\ cur' = cur
                 ELSE wpc' = [wpc EXCEPT ![w] = "recv"] /\ cur' = [cur EXCEPT ![w] = NoJob]
       ELSE /\ ok' = ok + 1
            /\ fail' = fail
            /\ out' = out
            /\ wpc' = [wpc EXCEPT ![w] = "recv"]
            /\ cur' = [cur EXCEPT ![w] = NoJob]
  /\ UNCHANGED << article, html, flag, pc, inputRead, files, jobs, closed, wg, spawned, sent,
                  failures, mutex, idle, outcome, attempts, reqs, outFile >>

\* Variant of Lock: the worker goes on without holding the mutex
LockNoWait(w) ==
  /\ wpc[w] = "lock"
  /\ mutex' = w
  /\ wpc' = [wpc EXCEPT ![w] = "append"]
  /\ UNCHANGED << article, html, flag, pc, inputRead, files, jobs, closed, wg, spawned, sent,
                  ok, fail, failures, cur, idle, outcome, attempts, reqs, out, outFile >>

\* failuresMutex.Lock()
Lock(w) ==
  /\ wpc[w] = "lock"
  /\ mutex = 0
  /\ mutex' = w
  /\ wpc' = [wpc EXCEPT ![w] = "append"]
  /\ UNCHANGED << article, html, flag, pc, inputRead, files, jobs, closed, wg, spawned, sent,
                  ok, fail, failures, cur, idle, outcome, attempts, reqs, out, outFile >>

\* failures = append(failures, f), its first half: the slice is read
LoadFailures(w) ==
  /\ wpc[w] = "append"
  /\ cur' = [cur EXCEPT ![w].old = failures]
  /\ wpc' = [wpc EXCEPT ![w] = "store"]
  /\ UNCHANGED << article, html, flag, pc, inputRead, files, jobs, closed, wg, spawned, sent,
                  ok, fail, failures, mutex, idle, outcome, attempts, reqs, out,
                  outFile >>

\* failures = append(failures, f), its second half: the slice read, with f
\* after it, is assigned
AppendFailure(w) ==
  /\ wpc[w] = "store"
  /\ failures' = Append(cur[w].old, cur[w].f)
  /\ wpc' = [wpc EXCEPT ![w] = "unlock"]
  /\ UNCHANGED << article, html, flag, pc, inputRead, files, jobs, closed, wg, spawned, sent,
                  ok, fail, mutex, cur, idle, outcome, attempts, reqs, out, outFile >>

\* failuresMutex.Unlock() and the end of the iteration
Unlock(w) ==
  /\ wpc[w] = "unlock"
  /\ mutex' = 0
  /\ wpc' = [wpc EXCEPT ![w] = "recv"]
  /\ cur' = [cur EXCEPT ![w] = NoJob]
  /\ UNCHANGED << article, html, flag, pc, inputRead, files, jobs, closed, wg, spawned, sent,
                  ok, fail, failures, idle, outcome, attempts, reqs, out, outFile >>

Next ==
  \/ NewTransformer
  \/ Collect
  \/ Spawn
  \/ Enqueue
  \/ Close
  \/ Wait
  \/ Save
  \/ Summary
  \/ IdleClose
  \/ \E w \in Workers : Recv(w)
  \/ \E w \in Workers : Exit(w)
  \/ \E w \in Workers : Sleep(w)
  \/ \E w \in Workers : Process(w)
  \/ \E w \in Workers : Dial(w)
  \/ \E w \in Workers : DialFail(w)
  \/ \E w \in Workers : Respond(w)
  \/ \E w \in Workers : Count(w)
  \/ \E w \in Workers : Lock(w)
  \/ \E w \in Workers : LoadFailures(w)
  \/ \E w \in Workers : AppendFailure(w)
  \/ \E w \in Workers : Unlock(w)

\* The pipeline against a server that answers every request with a final
\* response
Spec == Init /\ [][Next]_vars

\* The pipeline against a server that may answer with redirects, run with a
\* valid configuration, no pacing, no failure file and no connection limit
RedirectInit ==
  /\ Init
  /\ flag.keySet
  /\ flag.apiValid
  /\ flag.workers >= 1
  /\ flag.backoff = 0
  /\ flag.maxConns = 0
  /\ ~flag.saveFailures

RedirectNext ==
  \/ NewTransformer
  \/ Collect
  \/ Spawn
  \/ Enqueue
  \/ Close
  \/ Wait
  \/ Save
  \/ Summary
  \/ IdleClose
  \/ \E w \in Workers : Recv(w)
  \/ \E w \in Workers : Exit(w)
  \/ \E w \in Workers : Process(w)
  \/ \E w \in Workers : Dial(w)
  \/ \E w \in Workers : DialFail(w)
  \/ \E w \in Workers : Respond(w)
  \/ \E w \in Workers : Follow(w)
  \/ \E w \in Workers : Count(w)

RedirectSpec == RedirectInit /\ [][RedirectNext]_vars

\* The steps of the main goroutine
MainStep ==
  NewTransformer \/ Collect \/ Spawn \/ Enqueue \/ Close \/ Wait \/ Save \/ Summary

\* The steps of worker goroutine w
WorkerStep(w) ==
  \/ Recv(w) \/ Exit(w) \/ Sleep(w) \/ Process(w)
  \/ Dial(w) \/ DialFail(w) \/ Respond(w)
  \/ Count(w) \/ Lock(w) \/ LoadFailures(w) \/ AppendFailure(w) \/ Unlock(w)

\* The Go scheduler runs every goroutine that can run, and every call a
\* goroutine makes returns (client.Do within the client's Timeout)
FairSpec ==
  Spec /\ WF_vars(MainStep) /\ \A w \in Workers : WF_vars(WorkerStep(w))

\* The pipeline started with -workers 0 or less: the spawn loop starts no
\* goroutine, so main is the only one that runs
NoWorkerInit == Init /\ flag.workers <= 0

NoWorkerNext ==
  \/ NewTransformer
  \/ Collect
  \/ Enqueue
  \/ Close
  \/ Wait
  \/ Save
  \/ Summary

NoWorkerSpec == NoWorkerInit /\ [][NoWorkerNext]_vars /\ WF_vars(NoWorkerNext)

\* ---------------------------------------------------------------------------
\* The renderer alone: buildHTML applied to one article
\* ---------------------------------------------------------------------------
RenderInit ==
  /\ article \in Articles
  /\ html = <<>>
  /\ flag = [ keySet |-> TRUE, retry |-> FALSE, apiValid |-> TRUE, workers |-> 1,
              backoff |-> 0, maxConns |-> 1, saveFailures |-> FALSE ]
  /\ pc = "start"
  /\ inputRead = FALSE
  /\ files = <<>>
  /\ jobs = <<>>
  /\ closed = FALSE
  /\ wg = 0
  /\ spawned = 0
  /\ sent = 0
  /\ ok = 0
  /\ fail = 0
  /\ failures = <<>>
  /\ mutex = 0
  /\ wpc = [w \in Workers |-> "unborn"]
  /\ cur = [w \in Workers |-> NoJob]
  /\ idle = 0
  /\ outcome = <<>>
  /\ attempts = <<>>
  /\ reqs = <<>>
  /\ out = [fatal |-> FALSE, notice |-> FALSE, failLines |-> 0, saveLog |-> "none",
            summary |-> NoSummary]
  /\ outFile = [state |-> "untouched", text |-> <<>>]

\* t.buildHTML(&art)
Render ==
  /\ html = <<>>
  /\ html' = buildHTML(article)
  /\ UNCHANGED << article, flag, pc, inputRead, files, jobs, closed, wg, spawned,
                  sent, ok, fail, failures, mutex, wpc, cur, idle, outcome, attempts,
                  reqs, out, outFile >>

RenderNext == Render

RenderSpec == RenderInit /\ [][RenderNext]_vars

\* ---------------------------------------------------------------------------
\* Helpers of the properties
\* ---------------------------------------------------------------------------
Entries == 1..Len(files)

\* Number of queue entries whose processFile call ended with outcome v
NumOutcome(v) == Cardinality({ i \in Entries : outcome[i] = v })

\* Workers whose current iteration holds queue entry i
Holders(i) == { w \in Workers : cur[w].i = i }

\* Main is past wg.Wait()
Reporting == pc \in {"report", "summary", "done"}

\* Number of processFile calls made for identifier x
RECURSIVE CallsFrom(_, _)
CallsFrom(x, i) ==
  IF i > Len(files) THEN 0
  ELSE (IF files[i] = x THEN attempts[i] ELSE 0) + CallsFrom(x, i + 1)

Distinct(seq) == \A i, j \in 1..Len(seq) : i # j => seq[i] # seq[j]

Range(seq) == { seq[i] : i \in 1..Len(seq) }

\* ---------------------------------------------------------------------------
\* C1
\* ---------------------------------------------------------------------------
\* C1: in every state ok + fail <= K (K the number of identifiers), and when
\* the summary is printed by a run with 1 <= W <= K workers, the counters and
\* the printed counts add up to K.
C1_CountsAddUp ==
  /\ ok + fail <= Len(files)
  /\ (out.summary.printed /\ 1 <= flag.workers /\ flag.workers <= Len(files))
       => /\ ok + fail = Len(files)
          /\ out.summary.ok + out.summary.fail = Len(files)

C1_Witness ==
  /\ pc = "done"
  /\ flag.workers = 2
  /\ Len(files) = 2
  /\ out.summary = [printed |-> TRUE, ok |-> 1, fail |-> 1]

\* ---------------------------------------------------------------------------
\* C2
\* ---------------------------------------------------------------------------
\* C2 as stated: no identifier is processed twice within a run.
C2_NoIdentifierTwice ==
  \A i \in Entries : CallsFrom(files[i], 1) <= 1

\* C2 amended: every queue entry is held by at most one worker and processed
\* at most once, and exactly once when a run with W >= 1 workers is past its
\* wait; an identifier is processed once per occurrence in the input, so
\* never twice in directory mode, whose identifiers are distinct.
C2_EachEntryOnce ==
  /\ \A i \in Entries :
       /\ attempts[i] <= 1
       /\ Cardinality(Holders(i)) <= 1
       /\ (Reporting /\ flag.workers >= 1) => attempts[i] = 1
  /\ ~flag.retry => \A i \in Entries : CallsFrom(files[i], 1) <= 1

C2_Witness ==
  /\ pc = "done"
  /\ flag.workers = 2
  /\ Len(files) = 2
  /\ files[1] = files[2]
  /\ attempts = <<1, 1>>

\* ---------------------------------------------------------------------------
\* C3
\* ---------------------------------------------------------------------------
\* C3: a failed item aborts neither its worker nor the run: a worker has
\* exited only when the queue is closed and empty, a run that counted a
\* failure has not ended fatally, and once main is past its wait (W >= 1)
\* every queue entry has been attempted and has an outcome.
C3_FailureNeverAborts ==
  /\ \A w \in Workers : wpc[w] = "exited" => (closed /\ jobs = <<>>)
  /\ fail > 0 => (~out.fatal /\ pc \notin {"fatal", "exited"})
  /\ (Reporting /\ flag.workers >= 1)
       => \A i \in Entries : attempts[i] = 1 /\ outcome[i] # "none"

C3_Witness ==
  /\ pc = "done"
  /\ flag.workers = 1
  /\ outcome = <<"unmet", "met">>
  /\ out.summary = [printed |-> TRUE, ok |-> 1, fail |-> 1]

\* ---------------------------------------------------------------------------
\* C4
\* ---------------------------------------------------------------------------
\* Identifiers of the queue entries whose processing failed
FailedIds == { files[i] : i \in { j \in Entries : outcome[j] = "unmet" } }

\* C4: a written failure file has exactly N lines for N failed items, the
\* lines are pairwise distinct, each line is a failed input identifier and
\* every failed identifier is a line.
C4_FailureFileLines ==
  outFile.state = "written"
    => LET lines == ScanLines(outFile.text, <<>>)
       IN  /\ Len(lines) = NumOutcome("unmet")
           /\ Distinct(lines)
           /\ Range(lines) = FailedIds

\* ---------------------------------------------------------------------------
\* C5
\* ---------------------------------------------------------------------------
\* C5: readFileList on the file saveFilesToFile wrote for the failure list
\* yields the failure list.
C5_RoundTrip ==
  outFile.state = "written" => readFileList(outFile.text) = failures

\* ---------------------------------------------------------------------------
\* C6
\* ---------------------------------------------------------------------------
\* C6: with the credential variable unset the process is at its start or has
\* ended fatally, no input was read, no worker was started and no connection
\* or request exists.
C6_MissingCredential ==
  ~flag.keySet
    => /\ pc \in {"start", "fatal"}
       /\ pc = "fatal" => out.fatal
       /\ ~inputRead
       /\ files = <<>>
       /\ spawned = 0
       /\ \A w \in Workers : wpc[w] = "unborn"
       /\ OpenConns = 0
       /\ reqs = <<>>

C6_Witness ==
  /\ ~flag.keySet
  /\ pc = "fatal"
  /\ out.fatal

\* ---------------------------------------------------------------------------
\* C7
\* ---------------------------------------------------------------------------
\* C7 as stated: a run whose collected input is empty reports 0 successes
\* and 0 failures.
C7_EmptyReportsZeroZero ==
  (inputRead /\ ~out.fatal /\ files = <<>>)
    => out.summary = [printed |-> TRUE, ok |-> 0, fail |-> 0]

\* C7 amended: a run whose collected input is empty exits with the notice
\* and without a summary line; nothing was counted, no worker was started,
\* no connection or request exists and the failure file is untouched.
C7_EmptyExitsWithNotice ==
  (inputRead /\ ~out.fatal /\ files = <<>>)
    => /\ pc = "exited"
       /\ out.notice
       /\ ~out.summary.printed
       /\ ok = 0 /\ fail = 0
       /\ spawned = 0
       /\ \A w \in Workers : wpc[w] = "unborn"
       /\ OpenConns = 0
       /\ reqs = <<>>
       /\ outFile.state = "untouched"

C7_Witness ==
  /\ pc = "exited"
  /\ inputRead
  /\ files = <<>>
  /\ out.notice

\* ---------------------------------------------------------------------------
\* C8
\* ---------------------------------------------------------------------------
\* C8 as stated: with W > C at most C connections are open.
C8_AtMostCConnections ==
  flag.workers > flag.maxConns => OpenConns <= flag.maxConns

\* C8 amended: with a limit C >= 1 at most C connections are open, whatever
\* the worker count (C = 0 sets no limit).
C8_AtMostCWhenPositive ==
  flag.maxConns >= 1 => OpenConns <= flag.maxConns

C8_Witness ==
  /\ flag.maxConns = 1
  /\ flag.workers = 2
  /\ \E w, v \in Workers : wpc[w] = "inflight" /\ wpc[v] = "dial"
  /\ OpenConns = 1

\* ---------------------------------------------------------------------------
\* C9
\* ---------------------------------------------------------------------------
\* C9: after a failed write of the failure file the run goes on to the
\* summary, the counters are the numbers of succeeded and failed items, and
\* the printed summary shows them.
C9_SaveErrorOnlyReported ==
  out.saveLog = "error"
    => /\ pc \in {"summary", "done"}
       /\ ~out.fatal
       /\ ok = NumOutcome("met")
       /\ fail = NumOutcome("unmet")
       /\ pc = "done"
            => out.summary = [printed |-> TRUE, ok |-> NumOutcome("met"),
                              fail |-> NumOutcome("unmet")]

C9_Witness ==
  /\ pc = "done"
  /\ out.saveLog = "error"
  /\ outFile.state = "partial"
  /\ out.summary = [printed |-> TRUE, ok |-> 1, fail |-> 1]

\* ---------------------------------------------------------------------------
\* C10
\* ---------------------------------------------------------------------------
\* C10: a processFile call returns no error exactly when the file opened,
\* the record decoded and the status is in [200,300); once main is past its
\* wait, ok is the number of items that met the three conditions and fail
\* the number of the others.
C10_SuccessIffAllThree ==
  /\ \A w \in Workers :
       wpc[w] = "count" => (~cur[w].err <=> outcome[cur[w].i] = "met")
  /\ (Reporting /\ flag.workers >= 1)
       => /\ ok = NumOutcome("met")
          /\ fail = Len(files) - NumOutcome("met")

C10_Witness ==
  /\ pc = "done"
  /\ \E i \in Entries : outcome[i] = "met"
  /\ \E i \in Entries : outcome[i] = "unmet"
  /\ ok = 1

\* ---------------------------------------------------------------------------
\* C11
\* ---------------------------------------------------------------------------
Contains(s, sub) ==
  \E i \in 1..(Len(s) - Len(sub) + 1) : SubSeq(s, i, i + Len(sub) - 1) = sub

Index(s, tok) == CHOOSE i \in 1..Len(s) : s[i] = tok

\* The part of buildHTML's output between "<div>\n" and "\n</div>\n"
ContentPart(h) == SubSeq(h, Index(h, DivOpen) + 1, Index(h, DivClose) - 1)

\* C11 as stated: for content containing <script>alert(1)</script> the whole
\* output holds no "<script" and holds "&lt;script"; content containing
\* <b>bold</b> keeps it.
C11_NoScriptInOutput ==
  html # <<>>
    => /\ Contains(article.Content, Payload)
            => (~Contains(html, ScriptOpen) /\ Contains(html, EscScriptOpen))
       /\ Contains(article.Content, Bold) => Contains(html, Bold)

\* C11 amended: for content containing <script>alert(1)</script> the content
\* container of the output holds no "<script" and holds "&lt;script", and
\* the whole output holds "<script" only when the link, the publish date or
\* the updated date does; content containing <b>bold</b> keeps it.
C11_NoScriptInContentPart ==
  html # <<>>
    => /\ Contains(article.Content, Payload)
            => /\ ~Contains(ContentPart(html), ScriptOpen)
               /\ Contains(ContentPart(html), EscScriptOpen)
               /\ Contains(html, ScriptOpen)
                    <=> \/ Contains(article.Link, ScriptOpen)
                        \/ Contains(article.PublishDate, ScriptOpen)
                        \/ Contains(article.UpdatedDate, ScriptOpen)
       /\ Contains(article.Content, Bold) => Contains(ContentPart(html), Bold)

C11_Witness ==
  /\ html # <<>>
  /\ Contains(article.Content, Payload)
  /\ Contains(article.Content, Bold)
  /\ Contains(article.Title, ScriptOpen)
  /\ ~Contains(article.Link, ScriptOpen)
  /\ ~Contains(html, ScriptOpen)

\* ---------------------------------------------------------------------------
\* C12
\* ---------------------------------------------------------------------------
\* Every started worker has returned
WorkersGone ==
  /\ wg = 0
  /\ \A w \in Workers :
       wpc[w] = IF w <= flag.workers THEN "exited" ELSE "unborn"

\* C12 as stated: main is in its report phase only after every worker has
\* terminated and the queue is empty, and before that phase nothing of the
\* run's result has been shown: no FAIL line, no summary, no failure file.
C12_NothingVisibleBeforeReport ==
  /\ Reporting => (WorkersGone /\ jobs = <<>>)
  /\ ~Reporting
       => /\ out.failLines = 0
          /\ ~out.summary.printed
          /\ out.saveLog = "none"
          /\ outFile.state = "untouched"

\* C12 amended: main is in its report phase only after every started worker
\* has terminated; the queue is then empty when at least one worker was
\* started and still holds every identifier when none was.  One FAIL line per
\* counted failure is logged while the workers run; the summary and the
\* failure file appear in the report phase only.
C12_OnlyFailLinesBeforeReport ==
  /\ Reporting
       => /\ WorkersGone
          /\ jobs = IF flag.workers >= 1 THEN <<>> ELSE files
  /\ out.failLines = fail
  /\ ~Reporting
       => /\ ~out.summary.printed
          /\ out.saveLog = "none"
          /\ outFile.state = "untouched"

C12_Witness ==
  /\ pc = "report"
  /\ flag.workers = 2
  /\ WorkersGone
  /\ jobs = <<>>
  /\ out.failLines = 1
  /\ ok = 1

\* ---------------------------------------------------------------------------
\* C13
\* ---------------------------------------------------------------------------
\* main has returned or the process has exited
Terminal == pc \in {"done", "fatal", "exited"}

\* C13: under fair scheduling, once main holds K >= 1 identifiers and
\* starts W >= 1 workers (W > K included), every worker terminates and main
\* reaches its report phase; and no state is stuck: while main has not
\* ended, main or some worker can take a step.
C13_ReachesReport ==
  /\ [](~Terminal => ENABLED (MainStep \/ \E w \in Workers : WorkerStep(w)))
  /\ (pc = "spawn" /\ Len(files) >= 1 /\ flag.workers >= 1)
       ~> (Reporting /\ WorkersGone /\ jobs = <<>> /\ closed)

C13_Witness ==
  /\ pc = "done"
  /\ flag.workers = 2
  /\ Len(files) = 1
  /\ WorkersGone
  /\ closed
  /\ ok + fail = 1

\* ---------------------------------------------------------------------------
\* C14
\* ---------------------------------------------------------------------------
\* C14: the channel holds len(files) identifiers, so main's next push can
\* always proceed, whatever the workers have done; the pushes made so far are
\* the first `sent` identifiers in input order (the channel holds the last of
\* them, the workers pulled the others); the channel is closed exactly from
\* the end of the enqueue loop on, after all K pushes, and no push is pending
\* on a closed channel.
C14_PushNeverBlocks ==
  /\ Len(jobs) <= JobsCap
  /\ pc = "enqueue" => (ENABLED Enqueue /\ sent < Len(files) /\ ~closed)
  /\ sent <= Len(files)
  /\ Len(jobs) <= sent
  /\ jobs = SubSeq(files, sent - Len(jobs) + 1, sent)
  /\ closed <=> pc \in {"wait", "report", "summary", "done"}
  /\ closed => sent = Len(files)
  /\ pc = "close" => sent = Len(files)

C14_Witness ==
  /\ pc = "wait"
  /\ closed
  /\ flag.workers = 2
  /\ Len(files) = 2
  /\ jobs = files
  /\ \A w \in Workers : wpc[w] = "recv"

\* ---------------------------------------------------------------------------
\* C15
\* ---------------------------------------------------------------------------
\* What the other workers can do does not depend on a worker being asleep
SleepBlocksNobody ==
  \A w, v \in Workers :
    (wpc[w] = "sleep" /\ v # w)
      => /\ (wpc[v] = "recv" /\ jobs # <<>>) => ENABLED Recv(v)
         /\ wpc[v] = "sleep" => ENABLED Sleep(v)
         /\ wpc[v] = "process" => ENABLED Process(v)
         /\ (wpc[v] = "dial" /\ (idle > 0 \/ MayDial)) => ENABLED Dial(v)
         /\ wpc[v] = "inflight" => ENABLED Respond(v)

\* One step of worker w, as far as the sleep is concerned
PacedStep(w) ==
  /\ (wpc[w] # "process" /\ wpc'[w] = "process")
       => /\ wpc[w] = IF flag.backoff > 0 THEN "sleep" ELSE "recv"
          /\ cur'[w].i # 0
          /\ attempts'[cur'[w].i] = 0
  /\ (wpc[w] # "sleep" /\ wpc'[w] = "sleep")
       => /\ flag.backoff > 0
          /\ wpc[w] = "recv"
          /\ cur[w] = NoJob
          /\ jobs # <<>>
          /\ jobs' = Tail(jobs)
          /\ cur'[w].f = Head(jobs)
  /\ (wpc[w] = "sleep" /\ wpc'[w] # "sleep")
       => (wpc'[w] = "process" /\ cur'[w] = cur[w])

\* C15: with a positive -backoff a worker enters processFile only from its
\* sleep, which it enters only by pulling an identifier, and it leaves the
\* sleep only into processFile of that identifier; a sleeping worker leaves
\* every other worker's step enabled; with -backoff 0 no worker is ever
\* asleep and processFile follows the pull directly.
C15_SleepBeforeEachAttempt ==
  /\ [](flag.backoff = 0 => \A w \in Workers : wpc[w] # "sleep")
  /\ []SleepBlocksNobody
  /\ [][\A w \in Workers : PacedStep(w)]_vars

C15_Witness ==
  /\ flag.backoff > 0
  /\ wpc[1] = "sleep"
  /\ wpc[2] = "inflight"
  /\ attempts[cur[2].i] = 1
  /\ attempts[cur[1].i] = 0

\* ---------------------------------------------------------------------------
\* C16
\* ---------------------------------------------------------------------------
\* The workers between Lock and Unlock
InCritical == { w \in Workers : wpc[w] \in {"append", "store", "unlock"} }

\* The workers whose counted failure is not yet in the list
AppendPending == { w \in Workers : wpc[w] \in {"lock", "append", "store"} }

\* C16: at most one worker is between Lock and Unlock, and it is the holder
\* of the mutex; the mutex is free whenever nobody is there; every counted
\* failure is in the list or still on its way to it, so the list is never
\* longer than the failure counter and, with -save-failures, holds exactly
\* `fail` identifiers once every worker has exited.
C16_AppendsExclusive ==
  /\ Cardinality(InCritical) <= 1
  /\ \A w \in Workers : (mutex = w) <=> (w \in InCritical)
  /\ (mutex = 0) <=> (InCritical = {})
  /\ Len(failures) <= fail
  /\ flag.saveFailures => Len(failures) + Cardinality(AppendPending) = fail
  /\ (flag.saveFailures /\ \A w \in Workers : wpc[w] \in {"unborn", "exited"})
       => (Len(failures) = fail /\ mutex = 0)

C16_Witness ==
  /\ flag.saveFailures
  /\ wpc[1] = "store"
  /\ wpc[2] = "lock"
  /\ mutex = 1
  /\ fail = 2
  /\ failures = <<>>

\* ---------------------------------------------------------------------------
\* C17
\* ---------------------------------------------------------------------------
RECURSIVE SumUpTo(_, _)
SumUpTo(seq, n) == IF n = 0 THEN 0 ELSE seq[n] + SumUpTo(seq, n - 1)

\* HTTP requests sent for identifier x, over all its queue entries
RequestsFor(x) ==
  SumUpTo([i \in Entries |-> IF files[i] = x THEN reqs[i] ELSE 0], Len(files))

\* C17 as stated: processFile runs at most once per entry and a failed step
\* ends it, so that every identifier causes at most one HTTP request and the
\* run sends at most K requests.
C17_AtMostOneRequest ==
  /\ \A i \in Entries : attempts[i] <= 1
  /\ \A x \in Range(files) : RequestsFor(x) <= 1
  /\ SumUpTo(reqs, Len(files)) <= Len(files)

\* One step, as far as the requests are concerned: a processFile call that
\* ends at os.Open, Decode or NewRequest has sent nothing, and the count of
\* an entry changes only when the worker holding it puts a request on a
\* connection.
RequestStep ==
  /\ \A w \in Workers :
       (wpc[w] = "process" /\ wpc'[w] = "count") => reqs'[cur[w].i] = 0
  /\ \A i \in Entries :
       (i <= Len(reqs) /\ i <= Len(reqs') /\ reqs'[i] # reqs[i])
         => \E w \in Workers :
              /\ cur[w].i = i
              /\ wpc[w] = "dial"
              /\ wpc'[w] = "inflight"
              /\ reqs'[i] = reqs[i] + 1

\* C17 amended: processFile is called at most once per queue entry, a call
\* that fails before client.Do sends nothing, a failed call is never made
\* again, and a call sends one POST plus one request for each redirect the
\* server answers with.
C17_OneCallPerEntry ==
  /\ [](\A i \in Entries :
          /\ attempts[i] <= 1
          /\ reqs[i] <= 1 + MaxRedirects
          /\ reqs[i] >= 1 => attempts[i] = 1
          /\ outcome[i] # "none" => Holders(i) \subseteq { w \in Workers : wpc[w] = "count" })
  /\ [](\A w \in Workers : wpc[w] = "process" => reqs[cur[w].i] = 0)
  /\ [][RequestStep]_vars

C17_Witness ==
  /\ pc = "done"
  /\ Len(files) = 2
  /\ reqs = <<2, 0>>
  /\ attempts = <<1, 1>>
  /\ out.summary.fail = 1

\* ---------------------------------------------------------------------------
\* C18
\* ---------------------------------------------------------------------------
\* main is past its save block
Saved == pc \in {"summary", "done"}

\* C18: saveFilesToFile is called exactly when -save-failures is set and
\* the failure list is not empty at the report phase, and the file is not
\* touched before; the lines of a written file are the failure list, in
\* order; without -save-failures the list stays empty while fail counts; a
\* run without a failure leaves the file untouched.
C18_FailureFileIsList ==
  /\ ~flag.saveFailures => failures = <<>>
  /\ ~Saved => outFile.state = "untouched"
  /\ Saved => ((out.saveLog # "none") <=> (flag.saveFailures /\ failures # <<>>))
  /\ outFile.state = "written" => ScanLines(outFile.text, <<>>) = failures
  /\ (Saved /\ fail = 0) => outFile.state = "untouched"

\* ---------------------------------------------------------------------------
\* C19
\* ---------------------------------------------------------------------------
\* Identifiers received from the channel so far
Pulled == sent - Len(jobs)

\* Workers inside an iteration of their loop
Busy == { w \in Workers : cur[w].i # 0 }

\* Entries whose iteration has ended
Completed == { i \in Entries : outcome[i] # "none" /\ Holders(i) = {} }

\* Entries whose identifier has been appended to the failure list
Appended ==
  { i \in Entries :
      /\ outcome[i] = "unmet"
      /\ \A w \in Holders(i) : wpc[w] = "unlock" }

\* The identifiers of the entries in S among the first n, in input order
RECURSIVE InOrder(_, _)
InOrder(S, n) ==
  IF n = 0 THEN <<>>
  ELSE IF n \in S THEN Append(InOrder(S, n - 1), files[n])
  ELSE InOrder(S, n - 1)

\* C19: no more items are in process than workers were started, a worker
\* holds one item from its pull to the end of the iteration, the n-th pull
\* returned the n-th identifier, every pulled entry is held by one worker or
\* completed, and with one worker the entries complete in input order and the
\* failure list is the failed identifiers in input order.
C19_PulledInOrder ==
  /\ Cardinality(Busy) <= spawned
  /\ spawned <= (IF flag.workers > 0 THEN flag.workers ELSE 0)
  /\ \A w \in Workers :
       /\ (cur[w].i # 0) <=> (wpc[w] \notin {"unborn", "recv", "exited"})
       /\ cur[w].i # 0 => (cur[w].i <= Pulled /\ cur[w].f = files[cur[w].i])
  /\ \A i \in Entries :
       /\ Cardinality(Holders(i)) <= 1
       /\ i <= Pulled <=> (Holders(i) # {} \/ i \in Completed)
       /\ i > Pulled => outcome[i] = "none"
  /\ flag.workers = 1
       => /\ Completed \in {1..Pulled, 1..(Pulled - 1)}
          /\ flag.saveFailures => failures = InOrder(Appended, Len(files))

C19_Witness ==
  /\ pc = "done"
  /\ flag.workers = 1
  /\ Len(files) = 2
  /\ files[1] # files[2]
  /\ failures = files

\* ---------------------------------------------------------------------------
\* C20
\* ---------------------------------------------------------------------------
\* Nothing has been processed and nothing has been sent
NothingProcessed ==
  /\ spawned = 0
  /\ wg = 0
  /\ ok = 0
  /\ fail = 0
  /\ failures = <<>>
  /\ OpenConns = 0
  /\ \A w \in Workers : wpc[w] = "unborn"
  /\ \A i \in Entries : attempts[i] = 0 /\ reqs[i] = 0 /\ outcome[i] = "none"

\* C20: with -workers <= 0 and K >= 1 identifiers main is never stuck: each
\* push and the wait can proceed, and main goes on to the summary, which
\* reports 0 and 0 with all K identifiers still in the closed channel,
\* nothing processed and no request sent.
C20_NoWorkersStillEnds ==
  /\ [](flag.workers <= 0
          => /\ NothingProcessed
             /\ pc = "enqueue" => ENABLED Enqueue
             /\ pc = "wait" => ENABLED Wait
             /\ pc = "done"
                  => /\ jobs = files
                     /\ sent = Len(files)
                     /\ closed
                     /\ out.summary = [printed |-> TRUE, ok |-> 0, fail |-> 0])
  /\ (flag.workers <= 0 /\ pc = "enqueue") ~> (pc = "done")

C20_Witness ==
  /\ pc = "done"
  /\ flag.workers = 0
  /\ Len(files) = 2
  /\ jobs = files
  /\ closed
  /\ out.summary = [printed |-> TRUE, ok |-> 0, fail |-> 0]

====
